---- MODULE Spec2Model ----
(***************************************************************************)
(* Model of the FVG pipeline of nq-forecast-system:                        *)
(*   resample_ohlcv            (src/data_layer/resample_timeframes.py)     *)
(*   detect_fvg, fvgs_to_frame, detect_fvg_for_timeframes,                 *)
(*   enrich_fvgs_with_time_and_price   (src/known_patterns/fvg_detector.py)*)
(*   _label_sessions  (src/data_layer/enrich_with_sessions_and_events.py)  *)
(*                                                                         *)
(* Timestamps are minutes since midnight of the first bar's day, prices    *)
(* and volumes are small integers.  A DataFrame is a sequence of rows in   *)
(* index order together with the set of column names it carries.           *)
(* Python positions are zero-based; At(s, i) reads position i.             *)
(***************************************************************************)
EXTENDS Integers, Sequences, FiniteSets, TLC

VARIABLES
    base_df,      \* rows of the base OHLCV table handed to the orchestrator
    columns,      \* the column names base_df carries
    timeframes,   \* the ordered timeframe labels
    min_width,    \* the min_width argument
    pc,           \* per run: "idle", "loop", "scan", "done"
    tfi,          \* per run: position (1-based) of the timeframe being processed
    df_tf,        \* per run: the rows detect_fvg is scanning
    i,            \* per run: detect_fvg's loop index (zero-based, as in the code)
    next_id,      \* per invocation cell: detect_fvg's id counter
    fvgs,         \* per run: detect_fvg's list of FVG objects
    all_fvgs,     \* per run: the orchestrator's concatenation
    result,       \* per run: what detect_fvg_for_timeframes returned or raised
    rs,           \* a direct call of resample_ohlcv: input, rule, output
    enr,          \* a call of enrich_fvgs_with_time_and_price
    ses           \* a call of label_for inside _label_sessions

vars == <<base_df, columns, timeframes, min_width, pc, tfi, df_tf, i, next_id,
          fvgs, all_fvgs, result, rs, enr, ses>>

orchVars == <<base_df, columns, timeframes, min_width, pc, tfi, df_tf, i,
              next_id, fvgs, all_fvgs, result>>

(***************************************************************************)
(* Bounds                                                                  *)
(***************************************************************************)
MaxPrice == 3       \* prices are 1..MaxPrice
MaxBars == 4        \* longest bar sequence of the series inputs
MaxBaseBars == 5    \* longest base sequence of the multi-timeframe inputs
MaxTfs == 2         \* longest timeframe list
MaxRule == 2        \* timeframe labels are "1m" .. "<MaxRule>m"
MaxTime == 5        \* resample inputs: bars lie at minutes 1..MaxTime
MaxResBars == 3     \* resample inputs: longest bar sequence
ResLevels == 2      \* resample inputs: price levels of the bars
DayLen == 4         \* session inputs: times of day are 0..DayLen-1
MaxWindows == 2     \* session inputs: longest window list
MaxGapRows == 1     \* enrich inputs: longest gap table
MaxCloses == 2      \* enrich inputs: longest bar sequence

Runs == {1, 2}

(***************************************************************************)
(* Generic helpers                                                         *)
(***************************************************************************)
At(s, k) == s[k + 1]

SeqsUpTo(S, n) == UNION {[1..k -> S] : k \in 0..n}

Max(a, b) == IF a >= b THEN a ELSE b

Min(a, b) == IF a <= b THEN a ELSE b

RECURSIVE FoldMax(_), FoldMin(_), FoldSum(_), Concat(_)
FoldMax(s) == IF Len(s) = 1 THEN s[1] ELSE Max(s[1], FoldMax(Tail(s)))

FoldMin(s) == IF Len(s) = 1 THEN s[1] ELSE Min(s[1], FoldMin(Tail(s)))

FoldSum(s) == IF s = <<>> THEN 0 ELSE s[1] + FoldSum(Tail(s))

Concat(ss) == IF ss = <<>> THEN <<>> ELSE ss[1] \o Concat(Tail(ss))

(***************************************************************************)
(* Tables                                                                  *)
(***************************************************************************)
REQUIRED_COLUMNS == {"open", "high", "low", "close", "volume"}

required == {"open", "high", "low", "close"}

Bar(t, o, h, l, c, v) ==
    [ts |-> t, open |-> o, high |-> h, low |-> l, close |-> c, volume |-> v]

\* A value that may be missing (NaN): <<>> or <<v>>.
Some(v) == <<v>>

NaN == <<>>

(***************************************************************************)
(* resample_ohlcv                                                          *)
(***************************************************************************)
\* _validate_columns: the required columns the table lacks.
validate_columns_missing(cols) == REQUIRED_COLUMNS \ cols

\* Variant: closed="left", the bucket [L-d, L).
InBucketLeftClosed(t, L, d) == L - d <= t /\ t < L

\* closed="right": the bucket with right edge L and duration d is (L-d, L].
InBucket(t, L, d) == L - d < t /\ t <= L

\* Variant: label="right" with closed="left", the edge after t's minute.
RightEdgeLeftClosed(t, d) == ((t \div d) + 1) * d

\* label="right", bins anchored at midnight (minute 0): the right edge of
\* the bucket holding t.
RightEdge(t, d) == ((t + d - 1) \div d) * d

Column(rows, c) == [k \in 1..Len(rows) |-> rows[k][c]]

\* "first", "max", "min", "last" of an empty group are NaN, "sum" is 0.
agg_first(s) == IF s = <<>> THEN NaN ELSE Some(s[1])

agg_max(s) == IF s = <<>> THEN NaN ELSE Some(FoldMax(s))

agg_min(s) == IF s = <<>> THEN NaN ELSE Some(FoldMin(s))

agg_last(s) == IF s = <<>> THEN NaN ELSE Some(s[Len(s)])

agg_sum(s) == Some(FoldSum(s))

agg(L, rows) ==
    [ts |-> L,
     open |-> agg_first(Column(rows, "open")),
     high |-> agg_max(Column(rows, "high")),
     low |-> agg_min(Column(rows, "low")),
     close |-> agg_last(Column(rows, "close")),
     volume |-> agg_sum(Column(rows, "volume"))]

\* Variant: every bar labeled with its bucket's edge, the bars of a bucket
\* not merged into one row.
resample_aggPerBar(df, d) ==
    [k \in 1..Len(df) |-> agg(RightEdge(df[k].ts, d), <<df[k]>>)]

\* .resample(timeframe, label="right", closed="right").agg(agg): one row per
\* bucket from the first bar's bucket to the last bar's bucket, empty or not.
resample_agg(df, d) ==
    IF df = <<>> THEN <<>>
    ELSE LET first == RightEdge(df[1].ts, d)
             last == RightEdge(df[Len(df)].ts, d)
             nb == ((last - first) \div d) + 1
             edge(k) == first + (k - 1) * d
         IN [k \in 1..nb |->
                agg(edge(k), SelectSeq(df, LAMBDA b : InBucket(b.ts, edge(k), d)))]

HasNaN(row) == \E c \in REQUIRED_COLUMNS : row[c] = NaN

\* .dropna(how="any"), the surviving rows read as plain numbers.
dropna(rows) ==
    LET kept == SelectSeq(rows, LAMBDA r : ~HasNaN(r))
    IN [k \in 1..Len(kept) |->
           Bar(kept[k].ts, kept[k].open[1], kept[k].high[1], kept[k].low[1],
               kept[k].close[1], kept[k].volume[1])]

\* resample_ohlcv on a table that passed validation, for a rule of d minutes.
resample_ohlcv(df, d) == dropna(resample_agg(df, d))

(***************************************************************************)
(* Timeframe labels: strings as sequences of characters                    *)
(***************************************************************************)
Digits == <<"1", "2", "3", "4", "5", "6", "7", "8", "9">>

DigitVal(c) == CHOOSE n \in 1..9 : Digits[n] = c

Label(n) == <<Digits[n], "m">>

RECURSIVE lstrip(_), rstrip(_)
lstrip(s) == IF s # <<>> /\ s[1] = " " THEN lstrip(Tail(s)) ELSE s

rstrip(s) ==
    IF s # <<>> /\ s[Len(s)] = " " THEN rstrip(SubSeq(s, 1, Len(s) - 1)) ELSE s

strip(s) == rstrip(lstrip(s))

\* _normalize_tf_to_rule: "5m" -> "5min", anything else unchanged.
normalize_tf_to_rule(tf) ==
    LET t == strip(tf)
    IN IF t # <<>> /\ t[Len(t)] = "m"
       THEN SubSeq(t, 1, Len(t) - 1) \o <<"m", "i", "n">>
       ELSE t

Rule1min == <<"1", "m", "i", "n">>

\* The bucket duration in minutes pandas reads from a rule "<n>min".
RuleMinutes(rule) == DigitVal(rule[1])

(***************************************************************************)
(* detect_fvg                                                              *)
(***************************************************************************)
\* Variant: detect_fvg asks for volume too.
validate_ohlcv_missingAll(cols) == REQUIRED_COLUMNS \ cols

\* _validate_ohlcv: the OHLC columns the table lacks.
validate_ohlcv_missing(cols) == required \ cols

\* Variant: a table without rows is refused.
validate_ohlcvNonEmpty(df, cols) ==
    IF df = <<>> \/ required \ cols # {} THEN "KeyError" ELSE "none"

\* _validate_ohlcv(df): the exception it raises, "none" when it returns.
\* Every table of the model has a DatetimeIndex.
validate_ohlcv(df, cols) ==
    IF validate_ohlcv_missing(cols) # {} THEN "KeyError" ELSE "none"

FVG(id, direction, tf, created_at, start_index, end_index, top, bottom) ==
    [id |-> id, direction |-> direction, tf |-> tf, created_at |-> created_at,
     start_index |-> start_index, end_index |-> end_index,
     top |-> top, bottom |-> bottom, width |-> top - bottom]

\* Variant: the gap measured against the neighbouring bar i-1.
BullTestAdjacent(df, k) == At(df, k).low > At(df, k - 1).high

\* Variant: touching bars count as a gap.
BullTestNonStrict(df, k) == At(df, k).low >= At(df, k - 2).high

\* bullish FVG: low[i] > high[i-2]
BullTest(df, k) == At(df, k).low > At(df, k - 2).high

\* Variant: the bearish test written with the bullish comparison.
BearTestMirrored(df, k) == At(df, k - 2).high < At(df, k).low

\* bearish FVG: high[i] < low[i-2]
BearTest(df, k) == At(df, k).high < At(df, k - 2).low

\* the min_width filter
Keep(width, mw) == width >= mw

\* Variant: a candidate rejected by min_width still takes an id.
LoopBodyIdLeak(df, k, tf, mw, acc, nid) ==
    LET bull == FVG(nid, "bull", tf, At(df, k).ts, k - 2, k,
                    At(df, k).low, At(df, k - 2).high)
        a1 == IF BullTest(df, k)
              THEN [fvgs |-> IF Keep(bull.width, mw) THEN Append(acc, bull) ELSE acc,
                    next_id |-> nid + 1]
              ELSE [fvgs |-> acc, next_id |-> nid]
        bear == FVG(a1.next_id, "bear", tf, At(df, k).ts, k - 2, k,
                    At(df, k - 2).low, At(df, k).high)
    IN IF BearTest(df, k)
       THEN [fvgs |-> IF Keep(bear.width, mw) THEN Append(a1.fvgs, bear) ELSE a1.fvgs,
             next_id |-> a1.next_id + 1]
       ELSE a1

\* One iteration of the for loop at index k: the list and the counter after it.
LoopBody(df, k, tf, mw, acc, nid) ==
    LET bull == FVG(nid, "bull", tf, At(df, k).ts, k - 2, k,
                    At(df, k).low, At(df, k - 2).high)
        a1 == IF BullTest(df, k) /\ Keep(bull.width, mw)
              THEN [fvgs |-> Append(acc, bull), next_id |-> nid + 1]
              ELSE [fvgs |-> acc, next_id |-> nid]
        bear == FVG(a1.next_id, "bear", tf, At(df, k).ts, k - 2, k,
                    At(df, k - 2).low, At(df, k).high)
    IN IF BearTest(df, k) /\ Keep(bear.width, mw)
       THEN [fvgs |-> Append(a1.fvgs, bear), next_id |-> a1.next_id + 1]
       ELSE a1

\* next_id = 1 at the start of every invocation
FirstId == 1

\* Variant: one process-global counter shared by every invocation.
CounterCellShared(r) == 1

\* next_id is a local of the invocation: run r's scans use r's own counter.
CounterCell(r) == r

\* for i in range(2, len(df)): the list after the iterations from k on
RECURSIVE for_loop(_, _, _, _, _, _)
for_loop(df, k, tf, mw, acc, nid) ==
    IF k >= Len(df) THEN acc
    ELSE LET out == LoopBody(df, k, tf, mw, acc, nid)
         IN for_loop(df, k + 1, tf, mw, out.fvgs, out.next_id)

\* detect_fvg(df, tf=tf, min_width=mw) on a table that passed validation
detect_fvg(df, tf, mw) == for_loop(df, 2, tf, mw, <<>>, FirstId)

(***************************************************************************)
(* fvgs_to_frame                                                           *)
(***************************************************************************)
\* .sort_index() on the id index: ascending ids.  Rows of equal id are kept
\* in their order of insertion, which is what the sort leaves for tables
\* this small; the order among equal ids is a fixed function of the id
\* column in any case.
sort_index(rows) ==
    LET ids == {rows[k].id : k \in 1..Len(rows)}
        top == IF ids = {} THEN 0 ELSE CHOOSE m \in ids : \A x \in ids : x <= m
    IN Concat([n \in 1..top |-> SelectSeq(rows, LAMBDA g : g.id = n)])

fvgs_to_frame(list) == IF list = <<>> THEN <<>> ELSE sort_index(list)

(***************************************************************************)
(* detect_fvg_for_timeframes, one step per loop iteration.  Each run r is  *)
(* one call; a run's exception ends it with no table.                      *)
(***************************************************************************)
Ok(table) == [status |-> "ok", table |-> table]

Raised(kind) == [status |-> kind, table |-> <<>>]

NoResult == [status |-> "none", table |-> <<>>]

CurTf(r) == timeframes[tfi[r]]

NeedsResample(tf) == normalize_tf_to_rule(tf) # Rule1min

\* df_tf = resample_ohlcv(base_df, rule) if rule != "1min" else base_df
TimeframeTable(tf) ==
    IF NeedsResample(tf)
    THEN resample_ohlcv(base_df, RuleMinutes(normalize_tf_to_rule(tf)))
    ELSE base_df

\* for tf in timeframes: resample_ohlcv raises ValueError (_validate_columns)
ResampleFails(r) ==
    /\ pc[r] = "loop"
    /\ tfi[r] <= Len(timeframes)
    /\ NeedsResample(CurTf(r))
    /\ validate_columns_missing(columns) # {}
    /\ pc' = [pc EXCEPT ![r] = "done"]
    /\ result' = [result EXCEPT ![r] = Raised("ValueError")]
    /\ UNCHANGED <<base_df, columns, timeframes, min_width, tfi, df_tf, i,
                   next_id, fvgs, all_fvgs, rs, enr, ses>>

\* for tf in timeframes: detect_fvg raises KeyError (_validate_ohlcv)
ValidateFails(r) ==
    /\ pc[r] = "loop"
    /\ tfi[r] <= Len(timeframes)
    /\ ~(NeedsResample(CurTf(r)) /\ validate_columns_missing(columns) # {})
    /\ validate_ohlcv(TimeframeTable(CurTf(r)), columns) # "none"
    /\ pc' = [pc EXCEPT ![r] = "done"]
    /\ result' = [result EXCEPT ![r] =
                     Raised(validate_ohlcv(TimeframeTable(CurTf(r)), columns))]
    /\ UNCHANGED <<base_df, columns, timeframes, min_width, tfi, df_tf, i,
                   next_id, fvgs, all_fvgs, rs, enr, ses>>

\* for tf in timeframes: df_tf is the resampled or the base table, and
\* detect_fvg starts on it: fvgs = [], next_id = 1, i = 2.
BeginScan(r) ==
    /\ pc[r] = "loop"
    /\ tfi[r] <= Len(timeframes)
    /\ ~(NeedsResample(CurTf(r)) /\ validate_columns_missing(columns) # {})
    /\ validate_ohlcv(TimeframeTable(CurTf(r)), columns) = "none"
    /\ df_tf' = [df_tf EXCEPT ![r] = TimeframeTable(CurTf(r))]
    /\ fvgs' = [fvgs EXCEPT ![r] = <<>>]
    /\ next_id' = [next_id EXCEPT ![CounterCell(r)] = FirstId]
    /\ i' = [i EXCEPT ![r] = 2]
    /\ pc' = [pc EXCEPT ![r] = "scan"]
    /\ UNCHANGED <<base_df, columns, timeframes, min_width, tfi, all_fvgs,
                   result, rs, enr, ses>>

\* for i in range(2, len(df)): one iteration
ScanStep(r) ==
    /\ pc[r] = "scan"
    /\ i[r] < Len(df_tf[r])
    /\ LET out == LoopBody(df_tf[r], i[r], CurTf(r), min_width, fvgs[r],
                           next_id[CounterCell(r)])
       IN /\ fvgs' = [fvgs EXCEPT ![r] = out.fvgs]
          /\ next_id' = [next_id EXCEPT ![CounterCell(r)] = out.next_id]
    /\ i' = [i EXCEPT ![r] = i[r] + 1]
    /\ UNCHANGED <<base_df, columns, timeframes, min_width, pc, tfi, df_tf,
                   all_fvgs, result, rs, enr, ses>>

\* return fvgs; all_fvgs.extend(fvgs_tf)
EndScan(r) ==
    /\ pc[r] = "scan"
    /\ i[r] >= Len(df_tf[r])
    /\ all_fvgs' = [all_fvgs EXCEPT ![r] = all_fvgs[r] \o fvgs[r]]
    /\ tfi' = [tfi EXCEPT ![r] = tfi[r] + 1]
    /\ pc' = [pc EXCEPT ![r] = "loop"]
    /\ UNCHANGED <<base_df, columns, timeframes, min_width, df_tf, i, next_id,
                   fvgs, result, rs, enr, ses>>

\* return fvgs_to_frame(all_fvgs)
Finish(r) ==
    /\ pc[r] = "loop"
    /\ tfi[r] > Len(timeframes)
    /\ result' = [result EXCEPT ![r] = Ok(fvgs_to_frame(all_fvgs[r]))]
    /\ pc' = [pc EXCEPT ![r] = "done"]
    /\ UNCHANGED <<base_df, columns, timeframes, min_width, tfi, df_tf, i,
                   next_id, fvgs, all_fvgs, rs, enr, ses>>

(***************************************************************************)
(* Inputs                                                                  *)
(***************************************************************************)
Prices == 1..MaxPrice

\* any negative, the default 0, and a positive width filter
MinWidths == {0 - 1, 0, MaxPrice - 1}

\* One-minute bars at minutes 1, 2, ... with the given <<high, low>> pairs.
BarsOf(hl) ==
    [k \in 1..Len(hl) |-> Bar(k, hl[k][2], hl[k][1], hl[k][2], hl[k][1], 1)]

\* the 3-candle pattern: bars i-2, i-1, i
Window == 3

\* every sequence of up to one window of bars, well-formed or not
\* (high < low allowed)
WindowBars == {BarsOf(hl) : hl \in SeqsUpTo(Prices \X Prices, Window)}

\* longer series: bars with high = low at every price, and the inverted bar
\* with high = 1 and low = MaxPrice
SeriesShapes == {<<q, q>> : q \in Prices} \cup {<<1, MaxPrice>>}

SeriesBars == {BarsOf(hl) : hl \in SeqsUpTo(SeriesShapes, MaxBars)}

\* bars with high = low at the lowest or the highest price
FlatBars(n) == {BarsOf(hl) : hl \in SeqsUpTo({<<1, 1>>, <<MaxPrice, MaxPrice>>}, n)}

Labels == {Label(n) : n \in 1..MaxRule}

TfLists == SeqsUpTo(Labels, MaxTfs)

Started(rr) ==
    /\ pc = [r \in Runs |-> IF r \in rr THEN "loop" ELSE "idle"]
    /\ tfi = [r \in Runs |-> 1]
    /\ df_tf = [r \in Runs |-> <<>>]
    /\ i = [r \in Runs |-> 0]
    /\ next_id = [r \in Runs |-> 0]
    /\ fvgs = [r \in Runs |-> <<>>]
    /\ all_fvgs = [r \in Runs |-> <<>>]
    /\ result = [r \in Runs |-> NoResult]

OrchIdle ==
    /\ base_df = <<>>
    /\ columns = REQUIRED_COLUMNS
    /\ timeframes = <<>>
    /\ min_width = 0
    /\ Started({})

\* a single timeframe, the native one: detect_fvg on the bars as given
ScanInputs ==
    /\ base_df \in WindowBars \cup SeriesBars
    /\ columns = REQUIRED_COLUMNS
    /\ timeframes = <<Label(1)>>
    /\ min_width \in MinWidths

\* several timeframes over flat one-minute bars
MergeInputs ==
    /\ base_df \in FlatBars(MaxBaseBars)
    /\ columns = REQUIRED_COLUMNS
    /\ timeframes \in TfLists
    /\ min_width = 0

\* tables lacking columns
SchemaInputs ==
    /\ base_df \in FlatBars(Window)
    /\ columns \in SUBSET REQUIRED_COLUMNS
    /\ timeframes \in TfLists
    /\ min_width = 0

(***************************************************************************)
(* A direct call of resample_ohlcv(df, timeframe)                          *)
(***************************************************************************)
\* raise ValueError("DataFrame is missing required columns")
ResampleRaises ==
    /\ rs.pc = "call"
    /\ validate_columns_missing(rs.columns) # {}
    /\ rs' = [rs EXCEPT !.pc = "done", !.out = Raised("ValueError")]
    /\ UNCHANGED <<orchVars, enr, ses>>

\* return ohlcv
ResampleReturns ==
    /\ rs.pc = "call"
    /\ validate_columns_missing(rs.columns) = {}
    /\ rs' = [rs EXCEPT !.pc = "done",
                        !.out = Ok(resample_ohlcv(rs.df, RuleMinutes(rs.timeframe)))]
    /\ UNCHANGED <<orchVars, enr, ses>>

(***************************************************************************)
(* _label_sessions.label_for(ts): one step per window examined             *)
(***************************************************************************)
SessionWindow(label, start, end) == [label |-> label, start |-> start, end |-> end]

\* datetime.time(hour, minute) as minutes since midnight
time(hour, minute) == hour * 60 + minute

SESSION_OPEN == time(9, 30)

SESSION_CLOSE == time(16, 0)

\* Variant: the windows listed NY first, Asia last.
DEFAULT_SESSION_WINDOWS_NYFirst ==
    <<SessionWindow("NY", SESSION_OPEN, SESSION_CLOSE),
      SessionWindow("London", time(3, 0), time(11, 30)),
      SessionWindow("Asia", time(20, 0), time(8, 0))>>

DEFAULT_SESSION_WINDOWS ==
    <<SessionWindow("Asia", time(20, 0), time(8, 0)),
      SessionWindow("London", time(3, 0), time(11, 30)),
      SessionWindow("NY", SESSION_OPEN, SESSION_CLOSE)>>

\* Variant: the end of a window belongs to it.
in_windowClosedEnd(window, t) ==
    IF window.start <= window.end
    THEN window.start <= t /\ t <= window.end
    ELSE t >= window.start \/ t <= window.end

in_window(window, t) ==
    IF window.start <= window.end
    THEN window.start <= t /\ t < window.end
    ELSE t >= window.start \/ t < window.end

\* if in_window: return window.label
WindowMatches ==
    /\ ses.pc = "for"
    /\ ses.w <= Len(ses.windows)
    /\ in_window(ses.windows[ses.w], ses.t)
    /\ ses' = [ses EXCEPT !.pc = "done", !.label = ses.windows[ses.w].label]
    /\ UNCHANGED <<orchVars, rs, enr>>

\* the window does not contain ts.time(): next window
WindowSkipped ==
    /\ ses.pc = "for"
    /\ ses.w <= Len(ses.windows)
    /\ ~in_window(ses.windows[ses.w], ses.t)
    /\ ses' = [ses EXCEPT !.w = ses.w + 1]
    /\ UNCHANGED <<orchVars, rs, enr>>

\* return "Off"
NoWindow ==
    /\ ses.pc = "for"
    /\ ses.w > Len(ses.windows)
    /\ ses' = [ses EXCEPT !.pc = "done", !.label = "Off"]
    /\ UNCHANGED <<orchVars, rs, enr>>

\* rth_mask = (time >= SESSION_OPEN) & (time < SESSION_CLOSE)
rth_mask(t) == t >= SESSION_OPEN /\ t < SESSION_CLOSE

\* enrich_with_time_features after the bar's label is known:
\* session_type = rth_mask mapped to "RTH" / "ETH"
SessionType ==
    /\ ses.pc = "done"
    /\ ses' = [ses EXCEPT !.pc = "annotated",
                          !.session_type = IF rth_mask(ses.t) THEN "RTH" ELSE "ETH"]
    /\ UNCHANGED <<orchVars, rs, enr>>

(***************************************************************************)
(* enrich_fvgs_with_time_and_price                                         *)
(***************************************************************************)
\* the keyword-only parameters of enrich_with_time_features
enrich_with_time_features_params ==
    {"session_tz", "session_windows", "macro_event_dates"}

\* the keywords of the call enrich_with_time_features(base_df, tz=tz)
EnrichCallKeywords == {"tz"}

\* Python binds a call's keywords only to parameters of those names.
CallBinds(keywords, params) == keywords \subseteq params

\* the columns of a table made by fvgs_to_frame (FVG.to_dict, id as index)
FvgColumns ==
    {"pattern_type", "direction", "tf", "created_at", "start_index",
     "end_index", "top", "bottom", "width", "price_range", "is_filled",
     "filled_at", "session", "part_of_day", "distance_to_price"}

\* meta[["session", "part_of_day"]]
MetaColumns == {"session", "part_of_day"}

\* DataFrame.join without suffixes refuses overlapping column names.
JoinOverlaps(left, right) == left \cap right # {}

\* Variant: always measured from the nearer boundary.
distanceFromNear(row, last_price) ==
    IF row.direction = "bull" THEN last_price - row.top
    ELSE row.bottom - last_price

\* _distance(row), last_price being the enclosing function's reference price
distance(row, last_price) ==
    IF row.direction = "bull"
    THEN LET ref == IF last_price >= row.top THEN row.top ELSE row.bottom
         IN last_price - ref
    ELSE LET ref == IF last_price <= row.bottom THEN row.bottom ELSE row.top
         IN ref - last_price

\* last_price, or float(base_df["close"].iloc[-1]) when it is None
ReferencePrice(last_price, closes) ==
    IF last_price = NaN /\ closes # <<>> THEN Some(closes[Len(closes)])
    ELSE last_price

WithDistance(rows, ref) ==
    [k \in 1..Len(rows) |->
        [rows[k] EXCEPT !.distance_to_price =
            IF ref = NaN THEN @ ELSE Some(distance(rows[k], ref[1]))]]

\* the value or exception of enrich_fvgs_with_time_and_price
enrich_fvgs_with_time_and_price(df_fvgs, closes, last_price) ==
    IF df_fvgs = <<>> \/ closes = <<>> THEN Ok(df_fvgs)
    ELSE IF ~CallBinds(EnrichCallKeywords, enrich_with_time_features_params)
         THEN Raised("TypeError")
    ELSE IF JoinOverlaps(FvgColumns, MetaColumns) THEN Raised("ValueError")
    ELSE Ok(WithDistance(df_fvgs, ReferencePrice(last_price, closes)))

\* the whole call
Enrich ==
    /\ enr.pc = "call"
    /\ enr' = [enr EXCEPT !.pc = "done",
                   !.out = enrich_fvgs_with_time_and_price(
                               enr.df_fvgs, enr.closes, enr.last_price)]
    /\ UNCHANGED <<orchVars, rs, ses>>

\* _distance applied on its own to row k against a reference price
Distance(k) ==
    /\ enr.pc = "call"
    /\ k \in 1..Len(enr.df_fvgs)
    /\ ReferencePrice(enr.last_price, enr.closes) # NaN
    /\ enr' = [enr EXCEPT !.pc = "distance", !.row = k,
                   !.dist = distance(enr.df_fvgs[k],
                                     ReferencePrice(enr.last_price, enr.closes)[1])]
    /\ UNCHANGED <<orchVars, rs, ses>>

(***************************************************************************)
(* Inputs of the other calls                                               *)
(***************************************************************************)
RsIdle ==
    rs = [pc |-> "idle", df |-> <<>>, columns |-> REQUIRED_COLUMNS,
          timeframe |-> Rule1min, out |-> NoResult]

EnrIdle ==
    enr = [pc |-> "idle", df_fvgs |-> <<>>, closes |-> <<>>, last_price |-> NaN,
           out |-> NoResult, row |-> 0, dist |-> 0]

SesIdle ==
    ses = [pc |-> "idle", windows |-> <<>>, t |-> 0, w |-> 1, label |-> "",
           session_type |-> ""]

\* strictly ascending, unique timestamps
AscSeqs(n, T) ==
    {s \in SeqsUpTo(1..T, n) : \A k \in 1..(Len(s) - 1) : s[k] < s[k + 1]}

\* a bar at minute t whose five columns differ: low < open < close < high
LevelBar(t, p) == Bar(t, 2 * p, 2 * p + 2, 2 * p - 1, 2 * p + 1, p)

ResampleBars ==
    UNION {{[k \in 1..Len(ts) |-> LevelBar(ts[k], lv[k])] :
               lv \in [1..Len(ts) -> 1..ResLevels]} :
           ts \in AscSeqs(MaxResBars, MaxTime)}

ResampleRules == {normalize_tf_to_rule(l) : l \in Labels}

ResampleInputs ==
    \E df \in ResampleBars, rule \in ResampleRules, cols \in SUBSET REQUIRED_COLUMNS :
        /\ cols = REQUIRED_COLUMNS \/ Len(df) <= 1
        /\ rs = [pc |-> "call", df |-> df, columns |-> cols, timeframe |-> rule,
                 out |-> NoResult]

Times == 0..(DayLen - 1)

SessionNames == <<"Asia", "London", "NY", "Tokyo">>

\* window lists whose k-th window carries the k-th name
WindowLists ==
    UNION {{[k \in 1..n |-> SessionWindow(SessionNames[k], se[k][1], se[k][2])] :
               se \in [1..n -> Times \X Times]} :
           n \in 0..MaxWindows}

SessionInputs ==
    \E ws \in WindowLists, t \in Times :
        ses = [pc |-> "for", windows |-> ws, t |-> t, w |-> 1, label |-> "",
               session_type |-> ""]

\* the local times of day, minute by minute
MinutesOfDay == 0..(time(24, 0) - 1)

\* enrich_with_time_features with its default session_windows, for a bar at
\* any minute of the day
DefaultSessionInputs ==
    \E t \in MinutesOfDay :
        ses = [pc |-> "for", windows |-> DEFAULT_SESSION_WINDOWS, t |-> t,
               w |-> 1, label |-> "", session_type |-> ""]

RefPrices == 0..(MaxPrice + 1)

GapRows ==
    {[direction |-> d, top |-> tb[1], bottom |-> tb[2], distance_to_price |-> NaN] :
        d \in {"bull", "bear"},
        tb \in {x \in Prices \X Prices : x[1] > x[2]}}

EnrichInputs ==
    \E tab \in SeqsUpTo(GapRows, MaxGapRows), cl \in SeqsUpTo(Prices, MaxCloses),
       lp \in {NaN} \cup {Some(x) : x \in RefPrices} :
        enr = [pc |-> "call", df_fvgs |-> tab, closes |-> cl, last_price |-> lp,
               out |-> NoResult, row |-> 0, dist |-> 0]

\* bars at minutes of 1..MaxTime, some minutes without a bar, each bar
\* <<high, low>> with open = low and close = high, volumes 1, 2, ...
NativeShapes == {<<1, 1>>, <<MaxPrice, MaxPrice>>, <<MaxPrice, 1>>}

NativeBars ==
    UNION {{[k \in 1..Len(ts) |-> Bar(ts[k], hl[k][2], hl[k][1], hl[k][2], hl[k][1], k)] :
               hl \in [1..Len(ts) -> NativeShapes]} :
           ts \in AscSeqs(MaxBars, MaxTime)}

\* the native label alone, and resample_ohlcv(base_df, "1min") on the same bars
NativeInputs ==
    /\ base_df \in NativeBars
    /\ columns = REQUIRED_COLUMNS
    /\ timeframes = <<Label(1)>>
    /\ min_width = 0
    /\ rs = [pc |-> "call", df |-> base_df, columns |-> columns,
             timeframe |-> Rule1min, out |-> NoResult]

\* two calls on one input
TwoRunInputs ==
    /\ base_df \in FlatBars(MaxBars)
    /\ columns \in {REQUIRED_COLUMNS, REQUIRED_COLUMNS \ {"volume"},
                    REQUIRED_COLUMNS \ {"high"}}
    /\ timeframes \in TfLists
    /\ min_width = 0

(***************************************************************************)
(* Specifications                                                          *)
(***************************************************************************)
Orchestrate(r) ==
    \/ ResampleFails(r)
    \/ ValidateFails(r)
    \/ BeginScan(r)
    \/ ScanStep(r)
    \/ EndScan(r)
    \/ Finish(r)

\* one call of detect_fvg_for_timeframes
Init ==
    /\ ScanInputs \/ MergeInputs \/ SchemaInputs
    /\ Started({1})
    /\ RsIdle /\ EnrIdle /\ SesIdle

Next == \E r \in Runs : Orchestrate(r)

Spec == Init /\ [][Next]_vars

\* two calls of detect_fvg_for_timeframes on the same arguments, interleaved
InitTwoRuns ==
    /\ TwoRunInputs
    /\ Started(Runs)
    /\ RsIdle /\ EnrIdle /\ SesIdle

SpecTwoRuns == InitTwoRuns /\ [][Next]_vars

\* one call of resample_ohlcv
InitResample == OrchIdle /\ ResampleInputs /\ EnrIdle /\ SesIdle

NextResample == ResampleRaises \/ ResampleReturns

SpecResample == InitResample /\ [][NextResample]_vars

\* one call of label_for
InitSession == OrchIdle /\ RsIdle /\ EnrIdle /\ SessionInputs

NextSession == WindowMatches \/ WindowSkipped \/ NoWindow

SpecSession == InitSession /\ [][NextSession]_vars

\* one call of enrich_fvgs_with_time_and_price, or of _distance on a row
InitEnrich == OrchIdle /\ RsIdle /\ EnrichInputs /\ SesIdle

NextEnrich == Enrich \/ \E k \in 1..MaxGapRows : Distance(k)

SpecEnrich == InitEnrich /\ [][NextEnrich]_vars

\* detect_fvg_for_timeframes(base_df, ["1m"]) and resample_ohlcv(base_df,
\* "1min") on one table that carries all five columns: no validation raises
InitNative == NativeInputs /\ Started({1}) /\ EnrIdle /\ SesIdle

NextNative ==
    \/ BeginScan(1)
    \/ ScanStep(1)
    \/ EndScan(1)
    \/ Finish(1)
    \/ ResampleReturns

SpecNative == InitNative /\ [][NextNative]_vars

\* one bar through enrich_with_time_features with the default windows
InitDefaultSessions == OrchIdle /\ RsIdle /\ EnrIdle /\ DefaultSessionInputs

NextDefaultSessions == WindowMatches \/ WindowSkipped \/ NoWindow \/ SessionType

SpecDefaultSessions == InitDefaultSessions /\ [][NextDefaultSessions]_vars

(***************************************************************************)
(* Claims                                                                  *)
(***************************************************************************)
\* detect_fvg's loop over df_tf[r] has run to its end: fvgs[r] is what the
\* invocation returns (it is kept until the next invocation starts).
ScanFinished(r) ==
    \/ pc[r] = "scan" /\ i[r] >= Len(df_tf[r])
    \/ pc[r] \in {"loop", "done"} /\ tfi[r] > 1

Returned(r) == pc[r] = "done" /\ result[r].status = "ok"

SameGap(a, b) == [a EXCEPT !.id = 0] = [b EXCEPT !.id = 0]

\* C1: in the table detect_fvg_for_timeframes returns, the k-th row is the
\* k-th Gap of the concatenation (timeframe order outer, confirmation order
\* inner) and carries id k, so ids are unique within the merged result.
C1_Renumbered ==
    \A r \in Runs :
        Returned(r) =>
            /\ Len(result[r].table) = Len(all_fvgs[r])
            /\ \A k \in 1..Len(result[r].table) :
                  /\ result[r].table[k].id = k
                  /\ SameGap(result[r].table[k], all_fvgs[r][k])

\* C2: detect_fvg returns exactly the Gaps of the 3-bar rule: for each i in
\* 2..len-1 a bullish Gap (bottom = high[i-2], top = low[i]) iff
\* low[i] > high[i-2] and top - bottom >= min_width, a bearish Gap
\* (bottom = high[i], top = low[i-2]) iff high[i] < low[i-2] and
\* top - bottom >= min_width, and no others; each with created_at = the
\* timestamp of bar i, start_index = i-2, end_index = i, width = top - bottom.
\* Bar i-1 does not occur in the rule.
C2_ExactGaps ==
    \A r \in Runs :
        ScanFinished(r) =>
            LET df == df_tf[r]
                out == fvgs[r]
                n == Len(df)
                hi(k) == df[k + 1].high
                lo(k) == df[k + 1].low
                WantBull(k) == lo(k) > hi(k - 2) /\ lo(k) - hi(k - 2) >= min_width
                WantBear(k) == hi(k) < lo(k - 2) /\ lo(k - 2) - hi(k) >= min_width
                Rows(dir, k) ==
                    {x \in 1..Len(out) :
                        out[x].direction = dir /\ out[x].end_index = k}
            IN /\ \A x \in 1..Len(out) :
                     LET g == out[x]
                         e == g.end_index
                     IN /\ e \in 2..(n - 1)
                        /\ g.start_index = e - 2
                        /\ g.created_at = df[e + 1].ts
                        /\ g.width = g.top - g.bottom
                        /\ g.direction \in {"bull", "bear"}
                        /\ g.direction = "bull" =>
                              WantBull(e) /\ g.bottom = hi(e - 2) /\ g.top = lo(e)
                        /\ g.direction = "bear" =>
                              WantBear(e) /\ g.bottom = hi(e) /\ g.top = lo(e - 2)
               /\ \A k \in 2..(n - 1) :
                     /\ Cardinality(Rows("bull", k)) = IF WantBull(k) THEN 1 ELSE 0
                     /\ Cardinality(Rows("bear", k)) = IF WantBear(k) THEN 1 ELSE 0

\* a finished scan that confirmed a bullish and a bearish Gap and rejected a
\* candidate for its width
C2_Witness ==
    \E r \in Runs :
        /\ ScanFinished(r)
        /\ \E x, y \in 1..Len(fvgs[r]) :
              fvgs[r][x].direction = "bull" /\ fvgs[r][y].direction = "bear"
        /\ \E k \in 2..(Len(df_tf[r]) - 1) :
              /\ df_tf[r][k + 1].low > df_tf[r][k - 1].high
              /\ df_tf[r][k + 1].low - df_tf[r][k - 1].high < min_width

\* C6: every Gap detect_fvg holds or returns, for any min_width (zero,
\* positive or negative), has width = top - bottom, top - bottom >= min_width
\* and top > bottom strictly.
C6_GapBounds ==
    \A r \in Runs :
        \A x \in 1..Len(fvgs[r]) :
            /\ fvgs[r][x].width = fvgs[r][x].top - fvgs[r][x].bottom
            /\ fvgs[r][x].top - fvgs[r][x].bottom >= min_width
            /\ fvgs[r][x].top > fvgs[r][x].bottom

\* Gaps found under a negative and under a zero min_width
C6_Witness ==
    \E r \in Runs : ScanFinished(r) /\ min_width < 0 /\ fvgs[r] # <<>>

\* C7: within every invocation of detect_fvg the k-th Gap of the list has
\* id k, the list is in confirmation order (ascending i, bullish before
\* bearish at the same i), the counter is one past the list (a candidate
\* rejected by min_width takes no id), and this holds for every invocation,
\* whatever scans ran before it.
C7_LocalSequentialIds ==
    \A r \in Runs :
        /\ \A x \in 1..Len(fvgs[r]) : fvgs[r][x].id = x
        /\ pc[r] = "scan" => next_id[r] = Len(fvgs[r]) + 1
        /\ \A x, y \in 1..Len(fvgs[r]) :
              x < y =>
                 \/ fvgs[r][x].end_index < fvgs[r][y].end_index
                 \/ /\ fvgs[r][x].end_index = fvgs[r][y].end_index
                    /\ fvgs[r][x].direction = "bull"
                    /\ fvgs[r][y].direction = "bear"

\* a scan that rejected the candidate at i = 2 for its width and confirmed a
\* later one, which got id 1
C7_Witness ==
    \E r \in Runs :
        /\ ScanFinished(r)
        /\ Len(fvgs[r]) >= 1
        /\ fvgs[r][1].end_index > 2
        /\ df_tf[r][3].low > df_tf[r][1].high

\* a second timeframe's scan numbering its own Gaps from 1
C7_WitnessLaterScan ==
    \E r \in Runs :
        pc[r] = "scan" /\ tfi[r] = 2 /\ all_fvgs[r] # <<>> /\ fvgs[r] # <<>>

ClaimedDistance(row, q) ==
    IF row.direction = "bull"
    THEN IF q >= row.top THEN q - row.top ELSE q - row.bottom
    ELSE IF q <= row.bottom THEN row.bottom - q ELSE row.top - q

\* C4: enrich_fvgs_with_time_and_price on a non-empty Gap table and a
\* non-empty bar sequence completes without error and returns a table in
\* which every Gap's distance_to_price is the formula's value against the
\* reference price (explicit last_price, else the most recent close).
C4_EnrichReturnsDistances ==
    (enr.pc = "done" /\ enr.df_fvgs # <<>> /\ enr.closes # <<>>) =>
        LET q == IF enr.last_price # NaN THEN enr.last_price[1]
                 ELSE enr.closes[Len(enr.closes)]
        IN /\ enr.out.status = "ok"
           /\ Len(enr.out.table) = Len(enr.df_fvgs)
           /\ \A k \in 1..Len(enr.out.table) :
                 enr.out.table[k].distance_to_price =
                     Some(ClaimedDistance(enr.df_fvgs[k], q))

\* _distance has been applied to row enr.row against reference price DistRef
DistApplied == enr.pc = "distance"

DistRow == enr.df_fvgs[enr.row]

DistRef == ReferencePrice(enr.last_price, enr.closes)[1]

\* C5 as stated: the distance is zero exactly at the nearer boundary (top
\* for bullish, bottom for bearish), negative for every price strictly
\* inside the zone and for every price beyond the far boundary.
C5_NegativePastNearBoundary ==
    DistApplied =>
        LET near == IF DistRow.direction = "bull" THEN DistRow.top ELSE DistRow.bottom
            beyondFar == IF DistRow.direction = "bull" THEN DistRef < DistRow.bottom
                         ELSE DistRef > DistRow.top
        IN /\ enr.dist = 0 <=> DistRef = near
           /\ (DistRow.bottom < DistRef /\ DistRef < DistRow.top) => enr.dist < 0
           /\ beyondFar => enr.dist < 0

\* C5 amended: the distance is zero exactly at the two boundaries (top and
\* bottom), positive for every price strictly inside the zone and for every
\* price outside beyond the nearer boundary (above top for bullish, below
\* bottom for bearish), and negative exactly for the prices beyond the far
\* boundary (below bottom for bullish, above top for bearish).
C5_ZeroAtBothBoundaries ==
    DistApplied =>
        LET beyondFar == IF DistRow.direction = "bull" THEN DistRef < DistRow.bottom
                         ELSE DistRef > DistRow.top
            beyondNear == IF DistRow.direction = "bull" THEN DistRef > DistRow.top
                          ELSE DistRef < DistRow.bottom
        IN /\ enr.dist = 0 <=> DistRef \in {DistRow.top, DistRow.bottom}
           /\ (DistRow.bottom < DistRef /\ DistRef < DistRow.top) => enr.dist > 0
           /\ beyondNear => enr.dist > 0
           /\ enr.dist < 0 <=> beyondFar

\* the distance of a price strictly inside a bullish zone
C5_Witness ==
    /\ DistApplied
    /\ DistRow.direction = "bull"
    /\ DistRow.bottom < DistRef
    /\ DistRef < DistRow.top

\* C8: two calls of detect_fvg_for_timeframes on the same bars, the same
\* ordered timeframe list and the same min_width return the same table (the
\* same Gaps in the same row order with the same ids) or raise the same
\* error, however their scans interleave.
C8_Deterministic ==
    (pc[1] = "done" /\ pc[2] = "done") => result[1] = result[2]

\* both calls returned a table of several rows over two timeframes
C8_Witness ==
    /\ Returned(1)
    /\ Returned(2)
    /\ Len(timeframes) = 2
    /\ Len(result[1].table) >= 2

C9_ResampleNeedsAllFive ==
    rs.pc = "done" =>
        (rs.out.status = "ValueError" <=> rs.columns # REQUIRED_COLUMNS)

\* C10: the session of a bar is the label of the first window in list order
\* whose range contains the local time-of-day t (start <= t < end when
\* start <= end; t >= start or t < end when start > end), and "Off" when no
\* window contains it.
C10_FirstMatchingWindow ==
    ses.pc = "done" =>
        LET ws == ses.windows
            Contains(k) ==
                \/ ws[k].start <= ws[k].end /\ ws[k].start <= ses.t /\ ses.t < ws[k].end
                \/ ws[k].start > ws[k].end /\ (ses.t >= ws[k].start \/ ses.t < ws[k].end)
            M == {k \in 1..Len(ws) : Contains(k)}
        IN ses.label = IF M = {} THEN "Off"
                       ELSE ws[CHOOSE k \in M : \A j \in M : k <= j].label

\* a time labeled by a wrapping window that comes second, the first window
\* (a plain one) ending exactly at that time, with a later window also holding it
C10_Witness ==
    /\ ses.pc = "done"
    /\ Len(ses.windows) >= 2
    /\ ses.label = ses.windows[2].label
    /\ ses.windows[2].start > ses.windows[2].end
    /\ ses.windows[1].start < ses.windows[1].end
    /\ ses.windows[1].end = ses.t

C13_FewBarsNoGaps ==
    \A r \in Runs :
        /\ (ScanFinished(r) /\ Len(df_tf[r]) < 3) => fvgs[r] = <<>>
        /\ (/\ pc[r] = "done"
            /\ Len(base_df) < 3
            /\ {"open", "high", "low", "close"} \subseteq columns
            /\ \A k \in 1..Len(timeframes) : timeframes[k] = <<"1", "m">>) =>
               result[r] = Ok(<<>>)

\* the scan of a table without rows has returned, and so has the call
C13_Witness ==
    /\ Returned(1)
    /\ base_df = <<>>
    /\ timeframes = <<Label(1)>>
    /\ tfi[1] = 2
    /\ fvgs[1] = <<>>

\* the scan of a table of two bars has returned without a Gap
C13_WitnessTwoBars ==
    \E r \in Runs : ScanFinished(r) /\ pc[r] = "scan" /\ Len(df_tf[r]) = 2

\* a table whose bars all have high >= low
WellFormed(df) == \A k \in 1..Len(df) : df[k].high >= df[k].low

\* C14: on a table whose bars all have high >= low the bullish and the
\* bearish test never both fire at one index i, detect_fvg holds at most one
\* Gap per anchor bar, and the anchor timestamps of its list are strictly
\* increasing.
C14_OneGapPerAnchor ==
    \A r \in Runs :
        WellFormed(df_tf[r]) =>
            LET df == df_tf[r]
                out == fvgs[r]
            IN /\ \A k \in 3..Len(df) :
                     ~(df[k].low > df[k - 2].high /\ df[k].high < df[k - 2].low)
               /\ \A x, y \in 1..Len(out) :
                     x # y => out[x].end_index # out[y].end_index
               /\ \A x \in 1..(Len(out) - 1) :
                     out[x].created_at < out[x + 1].created_at

\* a finished scan of well-formed bars that found a bullish Gap and, at a
\* later bar, a bearish one
C14_Witness ==
    \E r \in Runs :
        /\ ScanFinished(r)
        /\ WellFormed(df_tf[r])
        /\ \E x, y \in 1..Len(fvgs[r]) :
              /\ fvgs[r][x].direction = "bull"
              /\ fvgs[r][y].direction = "bear"

\* on a bar with high < low both tests fire at one index and two Gaps share
\* the anchor
C14_WitnessInvertedBar ==
    \E r \in Runs :
        /\ ScanFinished(r)
        /\ ~WellFormed(df_tf[r])
        /\ \E x \in 1..(Len(fvgs[r]) - 1) :
              fvgs[r][x].created_at = fvgs[r][x + 1].created_at

\* C15: with the default session windows (Asia 20:00-08:00, London
\* 03:00-11:30, NY 09:30-16:00, in that order) a bar is labeled "NY" exactly
\* when its local time of day is in [11:30, 16:00), "London" exactly in
\* [08:00, 11:30), "Asia" exactly in [20:00, 24:00) or [00:00, 08:00) and
\* "Off" exactly in [16:00, 20:00); session_type is "RTH" exactly in
\* [09:30, 16:00), so session "NY" implies "RTH" while the bars in
\* [09:30, 11:30) are "RTH" with session "London".
C15_DefaultWindowLabels ==
    LET t == ses.t
        hm(h, m) == 60 * h + m
    IN /\ ses.pc \in {"done", "annotated"} =>
             /\ ses.label \in {"Asia", "London", "NY", "Off"}
             /\ ses.label = "NY" <=> (hm(11, 30) <= t /\ t < hm(16, 0))
             /\ ses.label = "London" <=> (hm(8, 0) <= t /\ t < hm(11, 30))
             /\ ses.label = "Asia" <=> (t >= hm(20, 0) \/ t < hm(8, 0))
             /\ ses.label = "Off" <=> (hm(16, 0) <= t /\ t < hm(20, 0))
       /\ ses.pc = "annotated" =>
             /\ ses.session_type \in {"RTH", "ETH"}
             /\ ses.session_type = "RTH" <=> (hm(9, 30) <= t /\ t < hm(16, 0))
             /\ ses.label = "NY" => ses.session_type = "RTH"
             /\ (hm(9, 30) <= t /\ t < hm(11, 30)) =>
                   ses.session_type = "RTH" /\ ses.label = "London"

\* the bar at 09:30 local time: session "London", session_type "RTH"
C15_Witness ==
    /\ ses.pc = "annotated"
    /\ ses.t = 9 * 60 + 30
    /\ ses.label = "London"
    /\ ses.session_type = "RTH"

====
